---- MODULE Spec2Model ----
(***************************************************************************)
(* Data-access layer of the chat backend: the connection pool manager      *)
(* (backend/database/connection.py), the operations layer                  *)
(* (backend/database/operations.py) and the operational scripts.           *)
(*                                                                         *)
(* Spec       pool lifecycle and connection scoping under interleaved      *)
(*            asyncio tasks (every await is a point where tasks switch).   *)
(* EmbSpec    document_embeddings: single and batch (transactional) insert.*)
(* SearchSpec document_embeddings: insert and similarity search.           *)
(* SessSpec   chat_sessions: create and partial update.                    *)
(* MsgSpec    chat_messages: concurrent insert_chat_message calls.         *)
(* HistSpec   chat_messages: inserts and get_chat_history.                 *)
(* DelSpec    document_embeddings: insert and delete by source.            *)
(* MetaSpec   the operations that store a metadata map.                    *)
(* ErrSpec    Spec with the diagnostic test_database_connection.           *)
(* WaitSpec   one call next to other callers' checked-out connections.     *)
(* MigSpec    run_migrations.py; ScriptSpec: the three scripts.            *)
(*                                                                         *)
(* The store specifications start with the pool open and run each awaited  *)
(* statement as one step (one SQL statement is atomic in the store); every *)
(* call stays in flight from its last statement to its return, across the  *)
(* awaited release of its connection, while the calls of other tasks and   *)
(* the clock run on.                                                       *)
(***************************************************************************)
EXTENDS Integers, Naturals, Sequences, FiniteSets, TLC

\* ---------------------------------------------------------------- bounds
NumTasks == 2          \* concurrently running asyncio tasks
MaxPools == 2          \* create_pool invocations explored per behaviour
EmbeddingDim == 2      \* vector length standing in for the 384 of the schema
MaxRows == 2           \* rows held by document_embeddings
MaxIds == 4            \* embedding ids generated per behaviour
MaxBatch == 2          \* records in one batch_insert_embeddings call
MaxLimit == 2          \* largest `limit` passed to the search
MaxSessions == 2       \* rows held by chat_sessions
MaxClock == 1          \* ticks of the store's clock per behaviour
MaxMsgs == 3           \* rows held by chat_messages
MaxSelections == 1     \* rows held by user_text_selections
MaxOverrun == 1        \* time explored past `timeout` in a wait for a connection
MaxFiles == 4          \* migration files in the migrations directory
MaxOffset == 1         \* largest `offset` passed to get_chat_history
MaxGens == 1           \* get_db generators open at a time

\* ------------------------------------------------------ program constants
max_size == 10         \* connection.py:32
timeout == 30          \* connection.py:34

Tasks == 1..NumTasks
PoolIds == 1..MaxPools
None == 0              \* Python None (no pool)

\* values of os.getenv("DATABASE_URL"): unset, empty string, a DSN
UrlValues == {"unset", "", "postgresql://db"}

\* the callers of get_database_pool the tasks run: the function itself, the
\* get_db dependency and an operation, which awaits two statements
Callers == {"get_database_pool", "get_db", "insert_chat_message"}

\* statements an operation awaits inside `async with pool.acquire()`
StmtCount(f) == IF f = "insert_chat_message" THEN 2 ELSE 1

VARIABLES
    url,        \* the DATABASE_URL environment variable
    _pool,      \* connection.py global _pool: None or a pool id
    nPools,     \* number of asyncpg.create_pool invocations so far
    pstate,     \* per pool: "new" | "open" | "closing" | "closed" | "terminated"
    out,        \* per pool: connections currently checked out
    pc,         \* per task: where the task is suspended
    fn,         \* per task: the function it runs (or ran last)
    loc,        \* per task: local `pool`; after get_database_pool its result
    rem,        \* per task: statements the operation still has to await
    ret,        \* per task: outcome of its last finished call
    dep,        \* per task: the pool whose connection its open get_db
                \* generator has yielded, or None
    acq,        \* per task: connections its running call has checked out
    err,        \* per task: the failure its running or last call ran into
    waited,     \* per task: time its call has spent waiting in pool.acquire()
    created,    \* history: create_pool invocations not failed, since last close
    returned,   \* history: pools returned by get_database_pool since last close
    emb,        \* committed rows of document_embeddings, in insertion order
    nextId,     \* next generated embedding_id
    batch,      \* the batch_insert_embeddings call in flight or last finished
    eres,       \* outcome of the last finished embedding operation (ids: the
                \* embedding ids it generated)
    epend,      \* per task: the outcome its insert_embedding or
                \* delete_embeddings_by_source call in flight will end with
    elast,      \* the last statement committed on document_embeddings
    search,     \* the search_similar_embeddings call whose SELECT was
                \* answered and which has not returned yet
    sessions,   \* rows of chat_sessions; the index is the session_id
    scall,      \* arguments and outcome of the session call whose statement
                \* ran last
    sret,       \* per task: the value its session call in flight will return
    now,        \* the store's clock, read by NOW()
    messages,   \* rows of chat_messages, in insertion order
    mcall,      \* per task: its insert_chat_message call in flight
    mres,       \* outcome of the last finished insert_chat_message
    hist,       \* the get_chat_history call in flight: arguments, table read, result
    selections, \* rows of user_text_selections, in insertion order
    mig,        \* run_migrations.py: the run of run_all_migrations
    ver,        \* verify_database.py: the run of verify_database
    setup       \* test_setup.py: the run of main

poolVars == <<url, _pool, nPools, pstate, out, pc, fn, loc, rem, ret, dep, acq,
              err, waited, created, returned>>
embVars == <<emb, nextId, batch, eres, epend, elast, search>>
sessVars == <<sessions, scall, sret>>
msgVars == <<now, messages, mcall, mres, hist, selections>>
scriptVars == <<mig, ver, setup>>
storeVars == <<embVars, sessVars, msgVars, scriptVars>>
vars == <<poolVars, embVars, sessVars, msgVars, scriptVars>>

\* pools closed by a completed close_database_pool
closedOk == {p \in PoolIds : pstate[p] = "closed"}

\* `if not database_url` (connection.py:25): None and "" are both falsy
UrlOnlyNoneMissing(u) == u = "unset"
UrlMissing(u) == u \in {"unset", ""}

\* the connection count of a pool after `async with pool.acquire()` is left;
\* __aexit__ releases the connection whether or not the body raised
ReleaseOnlyOnSuccess(n, raised) == IF raised THEN n ELSE n - 1
AcquireExit(n, raised) == n - 1

\* `_pool = None` after the awaited close (connection.py:53)
CloseKeepsPool(p) == p
CloseReset(p) == None

PoolInit ==
    /\ url \in UrlValues
    /\ _pool = None
    /\ nPools = 0
    /\ pstate = [p \in PoolIds |-> "new"]
    /\ out = [p \in PoolIds |-> 0]
    /\ pc = [t \in Tasks |-> "idle"]
    /\ fn = [t \in Tasks |-> "none"]
    /\ loc = [t \in Tasks |-> None]
    /\ rem = [t \in Tasks |-> 0]
    /\ ret = [t \in Tasks |-> "none"]
    /\ dep = [t \in Tasks |-> None]
    /\ acq = [t \in Tasks |-> 0]
    /\ err = [t \in Tasks |-> "none"]
    /\ waited = [t \in Tasks |-> 0]
    /\ created = 0
    /\ returned = {}

\* the diagnostic of the connection module, which catches every exception
\* and returns False (connection.py:103-105)
Probes == {"test_database_connection"}

\* the functions whose `except Exception` ends in `return False` and not in
\* `raise`
SwallowsReads(f) == f \in {"test_database_connection", "get_chat_session"}
Swallows(f) == f = "test_database_connection"

\* what the caller of f sees when f runs into the failure e
Outcome(f, e) == IF Swallows(f) THEN "False" ELSE e

\* task t drives an open get_db generator
HasGen(t) == dep[t] # None

\* a task starts get_db when it drives no open generator (a request resolves
\* the dependency once) and fewer than MaxGens generators are open
MayCall(t, f) ==
    f = "get_db" =>
        /\ ~HasGen(t)
        /\ Cardinality({u \in Tasks : HasGen(u) \/ (fn[u] = "get_db" /\ pc[u] # "idle")})
              < MaxGens

\* What a caller of get_database_pool does with the pool it got:
\* get_database_pool itself returns it, an operation goes on to pool.acquire()
GotPool(t, f, p) ==
    IF f = "get_database_pool"
    THEN /\ pc' = [pc EXCEPT ![t] = "idle"]
         /\ ret' = [ret EXCEPT ![t] = "pool"]
         /\ err' = [err EXCEPT ![t] = "none"]
         /\ loc' = [loc EXCEPT ![t] = p]
         /\ returned' = returned \cup {p}
    ELSE /\ pc' = [pc EXCEPT ![t] = "acquire"]
         /\ ret' = [ret EXCEPT ![t] = "none"]
         /\ err' = [err EXCEPT ![t] = "none"]
         /\ loc' = [loc EXCEPT ![t] = p]
         /\ UNCHANGED returned

\* get_database_pool, _pool is not None: line 22 false, line 42 returns _pool
GetExisting(t, f) ==
    /\ pc[t] = "idle"
    /\ MayCall(t, f)
    /\ _pool # None
    /\ fn' = [fn EXCEPT ![t] = f]
    /\ GotPool(t, f, _pool)
    /\ waited' = [waited EXCEPT ![t] = 0]
    /\ UNCHANGED <<storeVars, dep, url, _pool, nPools, pstate, out, rem, acq, created>>

\* get_database_pool, _pool is None and no connection string: ValueError
GetConfigError(t, f) ==
    /\ pc[t] = "idle"
    /\ MayCall(t, f)
    /\ _pool = None
    /\ UrlMissing(url)
    /\ fn' = [fn EXCEPT ![t] = f]
    /\ ret' = [ret EXCEPT ![t] = Outcome(f, "ValueError")]
    /\ err' = [err EXCEPT ![t] = "ValueError"]
    /\ loc' = [loc EXCEPT ![t] = None]
    /\ waited' = [waited EXCEPT ![t] = 0]
    /\ UNCHANGED <<storeVars, dep, url, _pool, nPools, pstate, out, pc, rem, acq,
                   created, returned>>

\* get_database_pool, _pool is None: asyncpg.create_pool(...) is called and
\* the task is suspended in the await (line 29) with _pool still None
GetCreateBegin(t, f) ==
    /\ pc[t] = "idle"
    /\ MayCall(t, f)
    /\ _pool = None
    /\ ~UrlMissing(url)
    /\ nPools < MaxPools
    /\ nPools' = nPools + 1
    /\ created' = created + 1
    /\ fn' = [fn EXCEPT ![t] = f]
    /\ loc' = [loc EXCEPT ![t] = nPools + 1]
    /\ pc' = [pc EXCEPT ![t] = "creating"]
    /\ ret' = [ret EXCEPT ![t] = "none"]
    /\ err' = [err EXCEPT ![t] = "none"]
    /\ waited' = [waited EXCEPT ![t] = 0]
    /\ UNCHANGED <<storeVars, dep, url, _pool, pstate, out, rem, acq, returned>>

\* the awaited create_pool finishes: line 29 assigns _pool, line 42 returns it
GetCreateEnd(t) ==
    /\ pc[t] = "creating"
    /\ _pool' = loc[t]
    /\ pstate' = [pstate EXCEPT ![loc[t]] = "open"]
    /\ GotPool(t, fn[t], loc[t])
    /\ UNCHANGED <<storeVars, dep, waited, url, nPools, out, fn, rem, acq, created>>

\* the awaited create_pool raises (store unreachable): lines 38-40 re-raise
GetCreateFail(t) ==
    /\ pc[t] = "creating"
    /\ pstate' = [pstate EXCEPT ![loc[t]] = "terminated"]
    /\ pc' = [pc EXCEPT ![t] = "idle"]
    /\ ret' = [ret EXCEPT ![t] = Outcome(fn[t], "ConnectError")]
    /\ err' = [err EXCEPT ![t] = "ConnectError"]
    /\ loc' = [loc EXCEPT ![t] = None]
    /\ created' = IF created > 0 THEN created - 1 ELSE 0
    /\ UNCHANGED <<storeVars, dep, waited, url, _pool, nPools, out, fn, rem, acq, returned>>

\* close_database_pool with no pool: line 51 false, nothing happens
CloseNoop(t) ==
    /\ pc[t] = "idle"
    /\ _pool = None
    /\ fn' = [fn EXCEPT ![t] = "close_database_pool"]
    /\ ret' = [ret EXCEPT ![t] = "close_none"]
    /\ err' = [err EXCEPT ![t] = "none"]
    /\ loc' = [loc EXCEPT ![t] = None]
    /\ UNCHANGED <<storeVars, dep, waited, url, _pool, nPools, pstate, out, pc, rem, acq,
                   created, returned>>

\* close_database_pool with a live pool: _pool.close() is called and the
\* task is suspended in the await (line 52); _pool still names that pool
CloseBegin(t) ==
    /\ pc[t] = "idle"
    /\ _pool # None
    /\ pstate[_pool] \in {"open", "closing"}
    /\ fn' = [fn EXCEPT ![t] = "close_database_pool"]
    /\ loc' = [loc EXCEPT ![t] = _pool]
    /\ pc' = [pc EXCEPT ![t] = "closing"]
    /\ ret' = [ret EXCEPT ![t] = "none"]
    /\ err' = [err EXCEPT ![t] = "none"]
    /\ pstate' = [pstate EXCEPT ![_pool] = "closing"]
    /\ UNCHANGED <<storeVars, dep, waited, url, _pool, nPools, out, rem, acq, created, returned>>

\* close_database_pool with a pool that is already closed: Pool.close()
\* returns at once without suspending; line 53 resets _pool
CloseClosed(t) ==
    /\ pc[t] = "idle"
    /\ _pool # None
    /\ pstate[_pool] \in {"closed", "terminated"}
    /\ fn' = [fn EXCEPT ![t] = "close_database_pool"]
    /\ loc' = [loc EXCEPT ![t] = None]
    /\ ret' = [ret EXCEPT ![t] = "closed"]
    /\ err' = [err EXCEPT ![t] = "none"]
    /\ pstate' = [pstate EXCEPT ![_pool] = "closed"]
    /\ _pool' = CloseReset(_pool)
    /\ created' = 0
    /\ returned' = {}
    /\ UNCHANGED <<storeVars, dep, waited, url, nPools, out, pc, rem, acq>>

\* Pool.close() returns once every connection has been released; line 53
\* then resets _pool
CloseEnd(t) ==
    /\ pc[t] = "closing"
    /\ out[loc[t]] = 0
    /\ pstate' = [pstate EXCEPT ![loc[t]] = "closed"]
    /\ _pool' = CloseReset(_pool)
    /\ pc' = [pc EXCEPT ![t] = "idle"]
    /\ ret' = [ret EXCEPT ![t] = "closed"]
    /\ err' = [err EXCEPT ![t] = "none"]
    /\ loc' = [loc EXCEPT ![t] = None]
    /\ created' = 0
    /\ returned' = {}
    /\ UNCHANGED <<storeVars, dep, waited, url, nPools, out, fn, rem, acq>>

\* Pool.close() raises (it terminates the pool and re-raises): line 53 is
\* not reached
CloseFail(t) ==
    /\ pc[t] = "closing"
    /\ pstate' = [pstate EXCEPT ![loc[t]] =
                     IF @ = "closed" THEN "closed" ELSE "terminated"]
    /\ pc' = [pc EXCEPT ![t] = "idle"]
    /\ ret' = [ret EXCEPT ![t] = "CloseError"]
    /\ err' = [err EXCEPT ![t] = "CloseError"]
    /\ loc' = [loc EXCEPT ![t] = None]
    /\ UNCHANGED <<storeVars, dep, waited, url, _pool, nPools, out, fn, rem, acq, created, returned>>

\* `async with pool.acquire() as conn`: a connection is checked out
OpAcquire(t) ==
    /\ pc[t] = "acquire"
    /\ fn[t] # "get_db"
    /\ pstate[loc[t]] = "open"
    /\ out[loc[t]] < max_size
    /\ out' = [out EXCEPT ![loc[t]] = @ + 1]
    /\ acq' = [acq EXCEPT ![t] = @ + 1]
    /\ rem' = [rem EXCEPT ![t] = StmtCount(fn[t])]
    /\ pc' = [pc EXCEPT ![t] = "stmt"]
    /\ UNCHANGED <<storeVars, dep, waited, url, _pool, nPools, pstate, fn, loc, ret, err,
                   created, returned>>

\* get_db: `async with pool.acquire() as connection: yield connection`
\* (connection.py:63-64): a connection is checked out and yielded; the
\* generator stays suspended at the yield while its task runs other code
GetDbYield(t) ==
    /\ pc[t] = "acquire"
    /\ fn[t] = "get_db"
    /\ pstate[loc[t]] = "open"
    /\ out[loc[t]] < max_size
    /\ out' = [out EXCEPT ![loc[t]] = @ + 1]
    /\ dep' = [dep EXCEPT ![t] = loc[t]]
    /\ pc' = [pc EXCEPT ![t] = "idle"]
    /\ ret' = [ret EXCEPT ![t] = "connection"]
    /\ err' = [err EXCEPT ![t] = "none"]
    /\ loc' = [loc EXCEPT ![t] = None]
    /\ UNCHANGED <<storeVars, waited, url, _pool, nPools, pstate, fn, rem, acq,
                   created, returned>>

\* the generator of task t is resumed or closed, with or without an
\* exception thrown into it: the `async with` block is left and the
\* connection released
GetDbClose(t, raised) ==
    /\ pc[t] = "idle"
    /\ HasGen(t)
    /\ out' = [out EXCEPT ![dep[t]] = AcquireExit(@, raised)]
    /\ dep' = [dep EXCEPT ![t] = None]
    /\ UNCHANGED <<storeVars, waited, url, _pool, nPools, pstate, pc, fn, loc,
                   rem, ret, acq, err, created, returned>>

\* pool.acquire() on a closing or closed pool raises InterfaceError
OpAcquireFail(t) ==
    /\ pc[t] = "acquire"
    /\ pstate[loc[t]] # "open"
    /\ pc' = [pc EXCEPT ![t] = "idle"]
    /\ ret' = [ret EXCEPT ![t] = Outcome(fn[t], "InterfaceError")]
    /\ err' = [err EXCEPT ![t] = "InterfaceError"]
    /\ loc' = [loc EXCEPT ![t] = None]
    /\ UNCHANGED <<storeVars, dep, waited, url, _pool, nPools, pstate, out, fn, rem, acq,
                   created, returned>>

\* the task leaves `async with pool.acquire()`, by return or by exception
OpExit(t, raised) ==
    /\ out' = [out EXCEPT ![loc[t]] = AcquireExit(@, raised)]
    /\ acq' = [acq EXCEPT ![t] = AcquireExit(@, raised)]
    /\ pc' = [pc EXCEPT ![t] = "idle"]
    /\ ret' = [ret EXCEPT ![t] = IF raised THEN Outcome(fn[t], "StoreError")
                              ELSE "result"]
    /\ err' = [err EXCEPT ![t] = IF raised THEN "StoreError" ELSE "none"]
    /\ rem' = [rem EXCEPT ![t] = 0]
    /\ loc' = [loc EXCEPT ![t] = None]

\* an awaited statement returns; after the last one the operation returns
\* its result
OpStmtOk(t) ==
    /\ pc[t] = "stmt"
    /\ pstate[loc[t]] # "terminated"
    /\ IF rem[t] > 1
       THEN /\ rem' = [rem EXCEPT ![t] = @ - 1]
            /\ UNCHANGED <<out, acq, pc, ret, err, loc>>
       ELSE OpExit(t, FALSE)
    /\ UNCHANGED <<storeVars, dep, waited, url, _pool, nPools, pstate, fn, created, returned>>

\* an awaited statement raises: `except Exception: log; raise` re-raises
\* through the `async with` block
OpStmtFail(t) ==
    /\ pc[t] = "stmt"
    /\ OpExit(t, TRUE)
    /\ UNCHANGED <<storeVars, dep, waited, url, _pool, nPools, pstate, fn, created, returned>>

\* ------------------------------------------------------------------------
\* document_embeddings (operations.py:254-415)

NoneStr == "<None>"                     \* Python None where a str is expected
PyNone == [py |-> "None"]              \* Python None where a dict is expected
PyDict(m) == [py |-> "dict", m |-> m]
KeyMissing == [py |-> "missing"]       \* the record dict has no such key
JsonNull == [json |-> "null"]
JsonObject(m) == [json |-> "object", m |-> m]

Keys == {"a", "b"}
EmptyMap == [k \in {} |-> 0]
MapA1 == [k \in {"a"} |-> 1]

\* json.dumps of a metadata argument: None gives null, a dict an object
JsonDumps(x) == IF x = PyNone THEN JsonNull ELSE JsonObject(x.m)

\* `json.dumps(metadata) if metadata else '{}'`: None and {} are falsy
MetadataJson(x) ==
    IF x = PyNone \/ x = PyDict(EmptyMap)
    THEN JsonObject(EmptyMap)
    ELSE JsonDumps(x)

\* `json.dumps(data.get('metadata', {}))` (operations.py:323)
BatchMetadataJson(x) ==
    JsonDumps(IF x = KeyMissing THEN PyDict(EmptyMap) ELSE x)

Dims == 1..EmbeddingDim
ZeroVector == [i \in Dims |-> 0]
\* the embeddings used: the 0/1 vectors of the schema's length, the zero
\* vector included
Vectors == [Dims -> {0, 1}]
UnitVector == [i \in Dims |-> IF i = 1 THEN 1 ELSE 0]
\* a vector of the wrong length, which the vector column rejects
BadVector == [i \in 1..(EmbeddingDim + 1) |-> 1]

\* the store accepts a row whose embedding has the column's length
RowAccepted(rec) == DOMAIN rec.embedding = Dims

NewRow(id, rec, mj) ==
    [embedding_id |-> id,
     source_type |-> rec.source_type,
     source_id |-> rec.source_id,
     content_chunk |-> rec.content_chunk,
     embedding |-> rec.embedding,
     metadata |-> mj]

RECURSIVE DotTo(_, _, _)
DotTo(a, b, n) == IF n = 0 THEN 0 ELSE a[n] * b[n] + DotTo(a, b, n - 1)
Dot(a, b) == DotTo(a, b, EmbeddingDim)

\* largest k in lo..hi with k * k <= x, by bisection
RECURSIVE ISqrt(_, _, _)
ISqrt(x, lo, hi) ==
    IF lo = hi THEN lo
    ELSE LET mid == (lo + hi + 1) \div 2
         IN IF mid * mid <= x THEN ISqrt(x, mid, hi) ELSE ISqrt(x, lo, mid - 1)

\* the similarity of a pair with a zero vector: 0/0, the float NaN. NaN is
\* not >= any threshold, and ORDER BY sorts a NaN distance after every number
NaN == -1

\* 1 - (embedding <=> $1): cosine similarity dot / sqrt(|e|^2 * |q|^2), in
\* hundredths rounded down (the vectors have no negative component, so it
\* lies in 0..100), or NaN
Cosine100(e, q) ==
    LET n == Dot(e, q)
        d == Dot(e, e) * Dot(q, q)
    IN IF d = 0 THEN NaN ELSE ISqrt((10000 * n * n) \div d, 0, 100)
SimilarityTable == [e \in Vectors, q \in Vectors |-> Cosine100(e, q)]
Similarity(e, q) == SimilarityTable[e, q]

\* `if source_type:` (operations.py:372): None and "" take the unfiltered query
SourceFilterApplies(st) == st \notin {NoneStr, ""}

\* WHERE source_type = $2, or every row
Candidates(store, st) ==
    LET Match(r) == r.source_type = st
    IN IF SourceFilterApplies(st) THEN SelectSeq(store, Match) ELSE store

\* ORDER BY embedding <=> $1: ascending distance, i.e. descending similarity,
\* NaN last
OrderedAscending(s1, s2) == s1 <= s2
OrderedBy(s1, s2) == s1 >= s2

\* the orders in which the store may return the candidates: every
\* permutation sorted by distance (the order of equal distances is the store's)
Orderings(cands, q) ==
    LET n == Len(cands)
        sims == [i \in 1..n |-> Similarity(cands[i].embedding, q)]
    IN {o \in [1..n -> 1..n] :
          /\ \A i, j \in 1..n : i # j => o[i] # o[j]
          /\ \A i \in 1..(n - 1) : OrderedBy(sims[o[i]], sims[o[i + 1]])}

Min(a, b) == IF a <= b THEN a ELSE b

\* LIMIT $n: the first `limit` rows of the ordered candidates, each with
\* its similarity column
Page(cands, o, q, limit) ==
    [i \in 1..Min(limit, Len(cands)) |->
        [row |-> cands[o[i]],
         similarity |-> Similarity(cands[o[i]].embedding, q)]]

\* `if row['similarity'] >= similarity_threshold` (operations.py:407)
StrictlyAbove(sim, thr) == sim # NaN /\ sim > thr
MeetsThreshold(sim, thr) == sim # NaN /\ sim >= thr

\* search_similar_embeddings for one order of the store's answer
SearchResult(store, q, st, limit, thr, o) ==
    LET Keep(x) == MeetsThreshold(x.similarity, thr)
    IN SelectSeq(Page(Candidates(store, st), o, q, limit), Keep)

\* `async with conn.transaction()`: commit on normal exit, rollback when the
\* block raises
NoTransaction(committed, pending, raised) == committed \o pending
TxnExit(committed, pending, raised) ==
    IF raised THEN committed ELSE committed \o pending

\* no call in flight, and the value v a call in flight will return
NoRet == <<>>
Returning(v) == <<v>>

\* task t is in no session, message or embedding call
TaskFree(t) ==
    /\ sret[t] = NoRet
    /\ mcall[t].pc = "idle"
    /\ epend[t] = NoRet

\* a committed statement on document_embeddings: "insert" or, with the
\* source it names, "delete"; "none" before the first
TableStatement(op, st, sid) ==
    [op |-> op, source_type |-> st, source_id |-> sid]

NoSearch == [done |-> FALSE]
NoBatch == [status |-> "idle", input |-> <<>>, i |-> 1,
            pending |-> <<>>, ids |-> <<>>]

EmbInit ==
    /\ emb = <<>>
    /\ nextId = 1
    /\ batch = NoBatch
    /\ eres = [op |-> "none", status |-> "none", ids |-> <<>>]
    /\ epend = [t \in Tasks |-> NoRet]
    /\ elast = TableStatement("none", NoneStr, NoneStr)
    /\ search = NoSearch

\* rows the table would hold if the batch in flight committed
RowsClaimed ==
    Len(emb) + (IF batch.status = "active" THEN Len(batch.input) ELSE 0)

\* insert_embedding by task t up to the end of its statement, INSERT ...
\* RETURNING embedding_id; the task is then suspended in the release of the
\* connection, with str(embedding_id) or the exception in hand
InsertEmbedding(t, rec) ==
    /\ TaskFree(t)
    /\ nextId <= MaxIds
    /\ RowsClaimed < MaxRows
    /\ IF RowAccepted(rec)
       THEN /\ emb' = Append(emb, NewRow(nextId, rec, MetadataJson(rec.metadata)))
            /\ nextId' = nextId + 1
            /\ elast' = TableStatement("insert", NoneStr, NoneStr)
            /\ epend' = [epend EXCEPT ![t] = Returning(
                            [op |-> "insert_embedding", status |-> "ok",
                             ids |-> <<nextId>>])]
       ELSE /\ epend' = [epend EXCEPT ![t] = Returning(
                            [op |-> "insert_embedding", status |-> "StoreError",
                             ids |-> <<>>])]
            /\ UNCHANGED <<emb, nextId, elast>>
    /\ UNCHANGED <<poolVars, scriptVars, sessVars, msgVars, batch, eres, search>>

\* the connection of task t's insert_embedding or delete_embeddings_by_source
\* call is released and the call returns or re-raises; the calls of other
\* tasks run on in between
EmbReturn(t) ==
    /\ epend[t] # NoRet
    /\ eres' = epend[t][1]
    /\ epend' = [epend EXCEPT ![t] = NoRet]
    /\ UNCHANGED <<poolVars, scriptVars, sessVars, msgVars, emb, nextId, batch,
                   elast, search>>

\* batch_insert_embeddings enters `async with conn.transaction()`; `batch`
\* follows one batch call at a time
BatchBegin(recs) ==
    /\ batch.status \in {"idle", "committed", "failed"}
    /\ nextId + Len(recs) <= MaxIds + 1
    /\ Len(emb) + Len(recs) <= MaxRows
    /\ batch' = [status |-> "active", input |-> recs, i |-> 1,
                 pending |-> <<>>, ids |-> <<>>]
    /\ UNCHANGED <<poolVars, scriptVars, sessVars, msgVars, emb, nextId, eres,
                   epend, elast, search>>

\* one turn of the loop: the awaited INSERT of record i returns an id, or
\* raises, which leaves the transaction block (rollback); the call is then
\* suspended in the release of the connection, the exception in hand
BatchInsert ==
    /\ batch.status = "active"
    /\ batch.i <= Len(batch.input)
    /\ LET rec == batch.input[batch.i]
       IN IF RowAccepted(rec)
          THEN /\ batch' = [batch EXCEPT
                              !.i = @ + 1,
                              !.pending = Append(@, NewRow(nextId, rec,
                                              BatchMetadataJson(rec.metadata))),
                              !.ids = Append(@, nextId)]
               /\ nextId' = nextId + 1
               /\ UNCHANGED emb
          ELSE /\ emb' = TxnExit(emb, batch.pending, TRUE)
               /\ batch' = [batch EXCEPT !.status = "raising"]
               /\ UNCHANGED nextId
    /\ UNCHANGED <<poolVars, scriptVars, sessVars, msgVars, eres, epend, elast,
                   search>>

\* the loop is over: the transaction block commits; the call is then
\* suspended in the release of the connection, the ids in hand
BatchCommit ==
    /\ batch.status = "active"
    /\ batch.i > Len(batch.input)
    /\ emb' = TxnExit(emb, batch.pending, FALSE)
    /\ batch' = [batch EXCEPT !.status = "returning"]
    /\ elast' = IF batch.pending = <<>> THEN elast ELSE TableStatement("insert", NoneStr, NoneStr)
    /\ UNCHANGED <<poolVars, scriptVars, sessVars, msgVars, nextId, eres, epend,
                   search>>

\* the connection of the batch call is released: `return embedding_ids`, or
\* the exception is logged and re-raised
BatchReturn ==
    /\ batch.status \in {"returning", "raising"}
    /\ IF batch.status = "returning"
       THEN /\ batch' = [batch EXCEPT !.status = "committed"]
            /\ eres' = [op |-> "batch_insert_embeddings", status |-> "ok",
                        ids |-> batch.ids]
       ELSE /\ batch' = [batch EXCEPT !.status = "failed"]
            /\ eres' = [op |-> "batch_insert_embeddings",
                        status |-> "StoreError", ids |-> <<>>]
    /\ UNCHANGED <<poolVars, scriptVars, sessVars, msgVars, emb, nextId, epend,
                   elast, search>>

\* search_similar_embeddings: one SELECT, whose rows the store returns in
\* some order o, then the threshold filter; `search` holds the call's
\* arguments, the table the SELECT read (store) and the list the call is
\* about to return
SearchSimilarEmbeddings(q, st, limit, thr) ==
    /\ ~search.done
    /\ \E o \in Orderings(Candidates(emb, st), q) :
          search' = [done |-> TRUE, query |-> q, source_type |-> st,
                     limit |-> limit, threshold |-> thr, store |-> emb,
                     results |-> SearchResult(emb, q, st, limit, thr, o)]
    /\ UNCHANGED <<poolVars, scriptVars, sessVars, msgVars, emb, nextId, batch,
                   eres, epend, elast>>

\* `return results` (operations.py:411): the call is over. Between the
\* SELECT and the return other tasks' inserts and deletes run; `search`
\* follows one search call at a time (a search does not change the table)
SearchReturn ==
    /\ search.done
    /\ search' = NoSearch
    /\ eres' = [op |-> "search_similar_embeddings", status |-> "ok",
                ids |-> <<>>]
    /\ UNCHANGED <<poolVars, scriptVars, sessVars, msgVars, emb, nextId, batch,
                   epend, elast>>

\* WHERE source_type = $1 AND source_id = $2 (operations.py:439)
DeleteMatchesType(r, st, sid) == r.source_type = st
DeleteMatches(r, st, sid) == r.source_type = st /\ r.source_id = sid

\* the status asyncpg's execute returns for a DELETE that removed n rows,
\* as its words
CommandTag(n) == <<"DELETE", n>>

\* `int(result.split()[-1])` (operations.py:446): the last word
ParseCount(tag) == tag[Len(tag)]

\* delete_embeddings_by_source by task t up to the end of its statement, one
\* DELETE; the count is read from its status, and the task is then suspended
\* in the release of the connection, the count in hand
DeleteEmbeddingsBySource(t, st, sid) ==
    /\ TaskFree(t)
    /\ LET Hit(r) == DeleteMatches(r, st, sid)
           Miss(r) == ~DeleteMatches(r, st, sid)
       IN /\ emb' = SelectSeq(emb, Miss)
          /\ epend' = [epend EXCEPT ![t] = Returning(
                [op |-> "delete_embeddings_by_source", status |-> "ok",
                 ids |-> <<>>, source_type |-> st, source_id |-> sid,
                 count |-> ParseCount(CommandTag(Len(SelectSeq(emb, Hit))))])]
    /\ elast' = TableStatement("delete", st, sid)
    /\ UNCHANGED <<poolVars, scriptVars, sessVars, msgVars, nextId, batch, eres,
                   search>>

\* arguments of the embedding operations
MetadataArgs == {PyNone, PyDict(EmptyMap), PyDict(MapA1)}
EmbRecs ==
    [source_type : {"faq"}, source_id : {"s1"}, content_chunk : {"text"},
     embedding : {UnitVector, BadVector}, metadata : MetadataArgs]
BatchRecs ==
    [source_type : {"faq"}, source_id : {"s1"}, content_chunk : {"text"},
     embedding : {UnitVector, BadVector},
     metadata : MetadataArgs \cup {KeyMissing}]
BatchInputs == UNION {[1..n -> BatchRecs] : n \in 0..MaxBatch}
\* rows of one source type with every vector, and one row of another type
SearchRecs ==
    [source_type : {"faq"}, source_id : {"s1"}, content_chunk : {"text"},
     embedding : Vectors, metadata : {PyNone}]
    \cup [source_type : {""}, source_id : {"s1"}, content_chunk : {"text"},
          embedding : {UnitVector}, metadata : {PyNone}]
SourceTypeArgs == {NoneStr, "", "faq"}
DelRecs ==
    [source_type : {"faq", "page"}, source_id : {"s1", "s2"},
     content_chunk : {"text"}, embedding : {UnitVector}, metadata : {PyNone}]
\* similarity_threshold, in hundredths: values of the documented range 0-1
\* and one above it (1.5)
Thresholds == {0, 50, 71, 100, 150}

\* ------------------------------------------------------------------------
\* chat_sessions (operations.py:22-145)

\* `current_page is not None`, `metadata is not None` (operations.py:120, 125)
MetaTruthy(md) == md \notin {PyNone, PyDict(EmptyMap)}
PageSupplied(cp) == cp # NoneStr
MetaSupplied(md) == md # PyNone

\* jsonb `metadata || $n::jsonb` on two objects: the union of the members,
\* a key of the right operand replacing the same key of the left one
JsonReplace(x, y) == y
JsonConcat(x, y) ==
    JsonObject([k \in DOMAIN x.m \cup DOMAIN y.m |->
                   IF k \in DOMAIN y.m THEN y.m[k] ELSE x.m[k]])

\* the SET clause built in lines 116-128 applied to the matching row
ApplyUpdates(row, cp, md) ==
    [row EXCEPT
        !.current_page = IF PageSupplied(cp) THEN cp ELSE @,
        !.metadata = IF MetaSupplied(md) THEN JsonConcat(@, JsonDumps(md))
                     ELSE @]

NoCall == [done |-> FALSE]

SessInit ==
    /\ sessions = <<>>
    /\ scall = NoCall
    /\ sret = [t \in Tasks |-> NoRet]

\* create_chat_session by task t up to the end of its statement, INSERT ...
\* RETURNING session_id; the task is then suspended in the release of the
\* connection, str(session_id) in hand
CreateChatSession(t, ua, cp, md) ==
    /\ TaskFree(t)
    /\ Len(sessions) < MaxSessions
    /\ LET id == Len(sessions) + 1
       IN /\ sessions' = Append(sessions,
                 [session_id |-> id, created_at |-> now, updated_at |-> now,
                  user_agent |-> ua, current_page |-> cp,
                  metadata |-> MetadataJson(md)])
          /\ scall' = [done |-> TRUE, op |-> "create_chat_session",
                       session_id |-> id, current_page |-> cp,
                       metadata |-> md, ret |-> TRUE, issued |-> 1]
          /\ sret' = [sret EXCEPT ![t] = Returning(id)]
    /\ UNCHANGED <<poolVars, scriptVars, embVars, msgVars>>

\* update_chat_session by task t up to the release of its connection: no
\* statement and False when nothing is supplied, else one UPDATE ... WHERE
\* session_id = $1 RETURNING session_id and `result is not None`
UpdateChatSession(t, sid, cp, md) ==
    /\ TaskFree(t)
    /\ IF ~(PageSupplied(cp) \/ MetaSupplied(md))
       THEN /\ scall' = [done |-> TRUE, op |-> "update_chat_session",
                         session_id |-> sid, current_page |-> cp,
                         metadata |-> md, ret |-> FALSE, issued |-> 0]
            /\ UNCHANGED sessions
       ELSE IF sid \in 1..Len(sessions)
       THEN /\ sessions' = [sessions EXCEPT
                               ![sid] = ApplyUpdates(@, cp, md)]
            /\ scall' = [done |-> TRUE, op |-> "update_chat_session",
                         session_id |-> sid, current_page |-> cp,
                         metadata |-> md, ret |-> TRUE, issued |-> 1]
       ELSE /\ scall' = [done |-> TRUE, op |-> "update_chat_session",
                         session_id |-> sid, current_page |-> cp,
                         metadata |-> md, ret |-> FALSE, issued |-> 1]
            /\ UNCHANGED sessions
    /\ sret' = [sret EXCEPT ![t] = Returning(scall'.ret)]
    /\ UNCHANGED <<poolVars, scriptVars, embVars, msgVars>>

\* the connection of task t's session call is released and the call
\* returns its value; the calls of other tasks run on in between
SessionReturn(t) ==
    /\ sret[t] # NoRet
    /\ sret' = [sret EXCEPT ![t] = NoRet]
    /\ UNCHANGED <<poolVars, scriptVars, embVars, msgVars, sessions, scall>>

\* arguments of the session operations: session ids are well-formed UUID
\* strings, of a stored session or of none
SessionIdArgs == 1..(MaxSessions + 1)
MapA2 == [k \in {"a"} |-> 2]
MapB2 == [k \in {"b"} |-> 2]
CreatePageArgs == {"/a"}
UpdatePageArgs == {NoneStr, "/b"}
UpdateMetadataArgs ==
    {PyNone, PyDict(EmptyMap), PyDict(MapA2), PyDict(MapB2)}

\* ------------------------------------------------------------------------
\* chat_messages and user_text_selections (operations.py:152-247, 459-504)

\* the two awaited statements of insert_chat_message, in program order
\* (operations.py:180 and 196)
TouchBeforeInsert == <<"touch", "insert">>
MessageStatements == <<"insert", "touch">>

\* the store rejects a message or selection of a session that is not stored
SessionExists(sid) == sid \in 1..Len(sessions)

NewMessage(id, sid, mj) ==
    [message_id |-> id, session_id |-> sid, role |-> "user",
     content |-> "text", created_at |-> now, metadata |-> mj]

\* UPDATE chat_sessions SET updated_at = NOW() WHERE session_id = $1
TouchSession(sess, sid) ==
    [s \in DOMAIN sess |->
        IF sess[s].session_id = sid
        THEN [sess[s] EXCEPT !.updated_at = now]
        ELSE sess[s]]

\* a statement of insert_chat_message raises: the store failed (ok false),
\* or the INSERT names a session that is not stored
MsgStmtRaises(kind, sid, ok) ==
    ~ok \/ (kind = "insert" /\ ~SessionExists(sid))

\* what one statement of insert_chat_message does to the tables
MsgStmt(kind, sid, md, ok) ==
    IF MsgStmtRaises(kind, sid, ok)
    THEN UNCHANGED <<sessions, messages>>
    ELSE IF kind = "insert"
    THEN /\ messages' = Append(messages,
                NewMessage(Len(messages) + 1, sid, MetadataJson(md)))
         /\ UNCHANGED sessions
    ELSE /\ sessions' = TouchSession(sessions, sid)
         /\ UNCHANGED messages

Max(a, b) == IF a >= b THEN a ELSE b

\* WHERE session_id = $1
SessionMessages(msgs, sid) ==
    LET Owned(m) == m.session_id = sid
    IN SelectSeq(msgs, Owned)

\* the orders in which the store may return the rows under ORDER BY
\* created_at ASC: every permutation sorted by created_at (the order of rows
\* with equal created_at is the store's)
CreatedOrderings(cands) ==
    LET n == Len(cands)
    IN {o \in [1..n -> 1..n] :
          /\ \A i, j \in 1..n : i # j => o[i] # o[j]
          /\ \A i \in 1..(n - 1) :
                cands[o[i]].created_at <= cands[o[i + 1]].created_at}

\* LIMIT $2 OFFSET $3 on the ordered rows
HistoryPage(cands, o, limit, offset) ==
    [i \in 1..Max(0, Min(limit, Len(cands) - offset)) |-> cands[o[offset + i]]]

NoMsgCall == [pc |-> "idle"]
NoHist == [done |-> FALSE, served |-> FALSE]

MsgInit ==
    /\ now = 0
    /\ messages = <<>>
    /\ mcall = [t \in Tasks |-> NoMsgCall]
    /\ mres = "none"
    /\ hist = NoHist
    /\ selections = <<>>

\* time passes in the store
Tick ==
    /\ now < MaxClock
    /\ now' = now + 1
    /\ UNCHANGED <<poolVars, scriptVars, embVars, sessVars, messages, mcall, mres, hist, selections>>

\* insert_chat_message by task t up to the end of its first awaited
\* statement; when it raises, the task is suspended in the release of its
\* connection (pc "return"), the exception to log and re-raise in hand
MsgFirst(t, sid, md, ok) ==
    /\ TaskFree(t)
    /\ Len(messages) < MaxMsgs
    /\ LET kind == MessageStatements[1]
           raised == MsgStmtRaises(kind, sid, ok)
       IN /\ MsgStmt(kind, sid, md, ok)
          /\ mcall' = [mcall EXCEPT ![t] =
                IF raised
                THEN [pc |-> "return", session_id |-> sid,
                      outcome |-> "StoreError"]
                ELSE [pc |-> "second", session_id |-> sid, metadata |-> md]]
    /\ UNCHANGED <<poolVars, scriptVars, embVars, scall, sret, now, mres, hist,
                   selections>>

\* the second awaited statement of insert_chat_message; the task is then
\* suspended in the release of its connection, str(message_id) ("ok") or the
\* exception in hand
MsgSecond(t, ok) ==
    /\ mcall[t].pc = "second"
    /\ LET kind == MessageStatements[2]
           sid == mcall[t].session_id
           raised == MsgStmtRaises(kind, sid, ok)
       IN /\ MsgStmt(kind, sid, mcall[t].metadata, ok)
          /\ mcall' = [mcall EXCEPT ![t] =
                [pc |-> "return", session_id |-> sid,
                 outcome |-> IF raised THEN "StoreError" ELSE "ok"]]
    /\ UNCHANGED <<poolVars, scriptVars, embVars, scall, sret, now, mres, hist,
                   selections>>

\* the connection of task t's insert_chat_message call is released and the
\* call returns or re-raises; the clock and the calls of other tasks run on
\* in between
MsgReturn(t) ==
    /\ mcall[t].pc = "return"
    /\ mres' = mcall[t].outcome
    /\ mcall' = [mcall EXCEPT ![t] = NoMsgCall]
    /\ UNCHANGED <<poolVars, scriptVars, embVars, sessVars, now, messages, hist,
                   selections>>

\* get_chat_history: one SELECT, whose rows the store returns in some order
\* o; `seen` is the table the SELECT read. `hist` follows one call at a time;
\* the calls of other tasks that store messages run on while it is pending
GetChatHistory(sid, limit, offset) ==
    /\ ~hist.done
    /\ \E o \in CreatedOrderings(SessionMessages(messages, sid)) :
          hist' = [done |-> TRUE, session_id |-> sid, limit |-> limit,
                   offset |-> offset, seen |-> messages,
                   results |-> HistoryPage(SessionMessages(messages, sid), o,
                                           limit, offset)]
    /\ UNCHANGED <<poolVars, scriptVars, embVars, sessVars, now, messages, mcall, mres, selections>>

\* the connection is released and `return [dict(row) for row in rows]`
\* (operations.py:243) hands the list to the caller (served)
HistoryReturn ==
    /\ hist.done
    /\ hist' = [done |-> FALSE, served |-> TRUE]
    /\ UNCHANGED <<poolVars, scriptVars, embVars, sessVars, now, messages, mcall, mres, selections>>

\* insert_text_selection: one INSERT ... RETURNING selection_id
InsertTextSelection(sid, md) ==
    /\ Len(selections) < MaxSelections
    /\ SessionExists(sid)
    /\ selections' = Append(selections,
          [selection_id |-> Len(selections) + 1, session_id |-> sid,
           created_at |-> now, metadata |-> MetadataJson(md)])
    /\ UNCHANGED <<poolVars, scriptVars, embVars, sessVars, now, messages, mcall, mres, hist>>

\* ------------------------------------------------------------------------
\* the operational scripts (run_migrations.py, verify_database.py,
\* test_setup.py); a run that has not ended has status NoStatus

NoStatus == -1
FileNames == 1..MaxFiles        \* stand for 001_x.sql, 002_y.sql, ...

\* sorted(migrations_dir.glob("*.sql")) (run_migrations.py:76)
RECURSIVE SortedFiles(_)
SortedFiles(S) ==
    IF S = {} THEN <<>>
    ELSE LET m == CHOOSE x \in S : \A y \in S : x <= y
         IN <<m>> \o SortedFiles(S \ {m})

\* the index of the loop after file i of n: `break` after a failed
\* migration (run_migrations.py:88-92)
ContinueAfterFailure(i, ok, n) == i + 1
NextFile(i, ok, n) == IF ok THEN i + 1 ELSE n + 1

MigIdle ==
    [pc |-> "start", files |-> <<>>, i |-> 1, success_count |-> 0,
     attempted |-> <<>>, applied |-> <<>>, connects |-> 0,
     test |-> FALSE, call |-> 1, stmt |-> 1, raising |-> FALSE,
     test_session |-> 0, failed |-> FALSE, status |-> NoStatus]
VerIdle ==
    [pc |-> "start", ext |-> FALSE, all_tables_exist |-> FALSE,
     vector_idx |-> FALSE, test_session |-> 0, failed |-> FALSE,
     status |-> NoStatus]
SetupIdle == [pc |-> "start", failed |-> FALSE, status |-> NoStatus]

ScriptInit ==
    /\ mig = MigIdle
    /\ ver = VerIdle
    /\ setup = SetupIdle

\* the operations test_database calls, in program order
\* (run_migrations.py:167-209), and their arguments
TestCalls ==
    <<"create_chat_session", "insert_chat_message", "get_chat_history",
      "insert_embedding", "search_similar_embeddings">>
\* embedding=[0.1] * 384 is the vector of the column's length with equal
\* components; metadata={"test": True} is given to the session and to the
\* embedding
TestRec ==
    [source_type |-> "product", source_id |-> "test-product",
     content_chunk |-> "Test product description",
     embedding |-> [i \in Dims |-> 1],
     metadata |-> PyDict([k \in {"test"} |-> TRUE])]

\* run_all_migrations has returned: `if args.test` (run_migrations.py:235)
\* goes on to test_database, else the process ends with status 0
AfterMigrations(m) ==
    IF m.test THEN [m EXCEPT !.pc = "test_call"]
    ELSE [m EXCEPT !.pc = "exit", !.status = 0]

\* an exception leaves asyncio.run and the script: the process ends with a
\* traceback and status 1
Uncaught(m) == [m EXCEPT !.pc = "exit", !.failed = TRUE, !.status = 1]

\* run_all_migrations up to the loop (test: the script was started with
\* --test): sys.exit(1) without DATABASE_URL, when the connect raises and
\* when the migrations directory is missing; with no migration file
\* `await conn.close()` (run_migrations.py:80) and a plain return, or
\* sys.exit(1) from the handlers of lines 140-145 when that close raises
MigStart(connOk, dirOk, names, closeOk, test) ==
    /\ mig.pc = "start"
    /\ LET m == [mig EXCEPT !.test = test]
       IN IF UrlMissing(url)
          THEN mig' = [m EXCEPT !.pc = "exit", !.failed = TRUE, !.status = 1]
          ELSE IF ~connOk
          THEN mig' = [m EXCEPT !.pc = "exit", !.failed = TRUE, !.status = 1]
          ELSE IF ~dirOk
          THEN mig' = [m EXCEPT !.pc = "exit", !.connects = 1,
                                !.failed = TRUE, !.status = 1]
          ELSE IF names = {}
          THEN mig' = IF closeOk
                      THEN AfterMigrations([m EXCEPT !.connects = 1])
                      ELSE [m EXCEPT !.pc = "exit", !.connects = 1,
                                     !.failed = TRUE, !.status = 1]
          ELSE mig' = [m EXCEPT !.pc = "apply", !.connects = 1,
                                !.files = SortedFiles(names)]
    /\ UNCHANGED <<poolVars, embVars, sessVars, msgVars, ver, setup>>

\* one turn of the loop: run_migration executes the file and returns True,
\* or logs the failure and returns False
MigApply(ok) ==
    /\ mig.pc = "apply"
    /\ LET f == mig.files[mig.i]
           j == NextFile(mig.i, ok, Len(mig.files))
       IN mig' = [mig EXCEPT
                     !.attempted = Append(@, f),
                     !.applied = IF ok THEN Append(@, f) ELSE @,
                     !.success_count = IF ok THEN @ + 1 ELSE @,
                     !.failed = @ \/ ~ok,
                     !.i = j,
                     !.pc = IF j > Len(mig.files) THEN "inventory" ELSE "apply"]
    /\ UNCHANGED <<poolVars, embVars, sessVars, msgVars, ver, setup>>

\* after the loop: the schema inventory, the close and the report; a query
\* that raises ends in sys.exit(1), else the function returns
MigInventory(ok) ==
    /\ mig.pc = "inventory"
    /\ mig' = IF ok THEN AfterMigrations(mig)
              ELSE [mig EXCEPT !.pc = "exit", !.failed = TRUE, !.status = 1]
    /\ UNCHANGED <<poolVars, embVars, sessVars, msgVars, ver, setup>>

\* test_database, get_database_pool of the operation it calls next: the
\* first call finds _pool None and awaits create_pool, which installs the
\* pool, or raises (connection.py:38-40: the invocation failed, no pool is
\* installed and the exception is re-raised); the later calls are handed the
\* installed pool
MigTestCall(ok) ==
    /\ mig.pc = "test_call"
    /\ IF _pool # None
       THEN /\ returned' = returned \cup {_pool}
            /\ mig' = [mig EXCEPT !.pc = "test_acquire"]
            /\ UNCHANGED <<_pool, nPools, pstate, created>>
       ELSE /\ nPools < MaxPools
            /\ nPools' = nPools + 1
            /\ IF ok
               THEN /\ _pool' = nPools + 1
                    /\ pstate' = [pstate EXCEPT ![nPools + 1] = "open"]
                    /\ created' = created + 1
                    /\ returned' = returned \cup {nPools + 1}
                    /\ mig' = [mig EXCEPT !.pc = "test_acquire"]
               ELSE /\ pstate' = [pstate EXCEPT ![nPools + 1] = "terminated"]
                    /\ mig' = Uncaught(mig)
                    /\ UNCHANGED <<_pool, created, returned>>
    /\ UNCHANGED <<url, out, pc, fn, loc, rem, ret, dep, acq, err, waited,
                   embVars, sessVars, msgVars, ver, setup>>

\* `async with pool.acquire() as conn` of the operation: a connection is
\* checked out, or the acquire raises
MigTestAcquire(ok) ==
    /\ mig.pc = "test_acquire"
    /\ IF ok
       THEN /\ out' = [out EXCEPT ![_pool] = @ + 1]
            /\ mig' = [mig EXCEPT !.pc = "test_stmt", !.stmt = 1]
       ELSE /\ mig' = Uncaught(mig)
            /\ UNCHANGED out
    /\ UNCHANGED <<url, _pool, nPools, pstate, pc, fn, loc, rem, ret, dep, acq,
                   err, waited, created, returned, embVars, sessVars, msgVars,
                   ver, setup>>

\* what statement k of test call c does to the tables: the session, the
\* message and the embedding are stored with the arguments of lines 167-198
\* and the session is touched; the two reads change nothing
MigTestEffect(c, k) ==
    IF TestCalls[c] = "create_chat_session"
    THEN /\ sessions' = Append(sessions,
                [session_id |-> Len(sessions) + 1, created_at |-> now,
                 updated_at |-> now, user_agent |-> "Test Agent",
                 current_page |-> "/test",
                 metadata |-> MetadataJson(TestRec.metadata)])
         /\ UNCHANGED <<messages, emb, nextId, elast>>
    ELSE IF TestCalls[c] = "insert_chat_message" /\ MessageStatements[k] = "insert"
    THEN /\ messages' = Append(messages,
                [message_id |-> Len(messages) + 1,
                 session_id |-> mig.test_session, role |-> "user",
                 content |-> "Test message", created_at |-> now,
                 metadata |-> MetadataJson(PyNone)])
         /\ UNCHANGED <<sessions, emb, nextId, elast>>
    ELSE IF TestCalls[c] = "insert_chat_message"
    THEN /\ sessions' = TouchSession(sessions, mig.test_session)
         /\ UNCHANGED <<messages, emb, nextId, elast>>
    ELSE IF TestCalls[c] = "insert_embedding"
    THEN /\ emb' = Append(emb, NewRow(nextId, TestRec,
                                      MetadataJson(TestRec.metadata)))
         /\ nextId' = nextId + 1
         /\ elast' = TableStatement("insert", NoneStr, NoneStr)
         /\ UNCHANGED <<sessions, messages>>
    ELSE UNCHANGED <<sessions, messages, emb, nextId, elast>>

\* one awaited statement of the operation: it is answered, or it raises and
\* the operation leaves its `async with` block with the exception
MigTestStmt(ok) ==
    /\ mig.pc = "test_stmt"
    /\ IF ok
       THEN /\ MigTestEffect(mig.call, mig.stmt)
            /\ mig' = [mig EXCEPT
                          !.test_session =
                              IF TestCalls[mig.call] = "create_chat_session"
                              THEN Len(sessions) + 1 ELSE @,
                          !.stmt = @ + 1,
                          !.pc = IF mig.stmt < StmtCount(TestCalls[mig.call])
                                 THEN "test_stmt" ELSE "test_release"]
       ELSE /\ mig' = [mig EXCEPT !.pc = "test_release", !.raising = TRUE]
            /\ UNCHANGED <<sessions, messages, emb, nextId, elast>>
    /\ UNCHANGED <<poolVars, batch, eres, epend, search, scall, sret, now, mcall,
                   mres, hist, selections, ver, setup>>

\* the connection is released; the operation returns and test_database goes
\* on to the next call, or after the last one returns (status 0), or the
\* exception is logged and re-raised by the operation and by test_database
MigTestRelease ==
    /\ mig.pc = "test_release"
    /\ out' = [out EXCEPT ![_pool] = AcquireExit(@, mig.raising)]
    /\ mig' = IF mig.raising THEN Uncaught(mig)
              ELSE IF mig.call < Len(TestCalls)
              THEN [mig EXCEPT !.call = @ + 1, !.pc = "test_call"]
              ELSE [mig EXCEPT !.pc = "exit", !.status = 0]
    /\ UNCHANGED <<url, _pool, nPools, pstate, pc, fn, loc, rem, ret, dep, acq,
                   err, waited, created, returned, embVars, sessVars, msgVars,
                   ver, setup>>

\* verify_database up to the basic operations: sys.exit(1) without
\* DATABASE_URL and when the connect or a query raises; a missing extension,
\* table or vector index is printed
VerChecks(ok, ext, tables, vidx) ==
    /\ ver.pc = "start"
    /\ IF UrlMissing(url) \/ ~ok
       THEN ver' = [ver EXCEPT !.pc = "exit", !.failed = TRUE, !.status = 1]
       ELSE ver' = [ver EXCEPT !.pc = "insert", !.ext = ext,
                               !.all_tables_exist = tables,
                               !.vector_idx = vidx,
                               !.failed = ~(ext /\ tables /\ vidx)]
    /\ UNCHANGED <<poolVars, embVars, sessVars, msgVars, mig, setup>>

\* the basic operations, first statement (verify_database.py:139-144):
\* INSERT INTO chat_sessions (user_agent, current_page) VALUES ('Test',
\* '/test') RETURNING session_id, the other columns taking their defaults;
\* when it raises, the failure is caught and printed and the DELETE is skipped
VerInsert(ok) ==
    /\ ver.pc = "insert"
    /\ IF ok
       THEN LET id == Len(sessions) + 1
            IN /\ sessions' = Append(sessions,
                      [session_id |-> id, created_at |-> now,
                       updated_at |-> now, user_agent |-> "Test",
                       current_page |-> "/test",
                       metadata |-> JsonObject(EmptyMap)])
               /\ ver' = [ver EXCEPT !.pc = "delete", !.test_session = id]
       ELSE /\ ver' = [ver EXCEPT !.pc = "close", !.failed = TRUE]
            /\ UNCHANGED sessions
    /\ UNCHANGED <<poolVars, embVars, scall, sret, msgVars, mig, setup>>

\* the second statement (verify_database.py:147-150): DELETE FROM
\* chat_sessions WHERE session_id = $1; when it raises, the failure is caught
\* and printed and the test row stays
VerDelete(ok) ==
    /\ ver.pc = "delete"
    /\ IF ok
       THEN LET Other(r) == r.session_id # ver.test_session
            IN /\ sessions' = SelectSeq(sessions, Other)
               /\ ver' = [ver EXCEPT !.pc = "close"]
       ELSE /\ ver' = [ver EXCEPT !.pc = "close", !.failed = TRUE]
            /\ UNCHANGED sessions
    /\ UNCHANGED <<poolVars, embVars, scall, sret, msgVars, mig, setup>>

\* `await conn.close()` inside the outer try, then the summary
\* (verify_database.py:155-171): sys.exit(1) when the close raises, else
\* sys.exit(0) exactly when extension, tables and vector index were found
VerClose(ok) ==
    /\ ver.pc = "close"
    /\ ver' = [ver EXCEPT
                  !.pc = "exit",
                  !.failed = @ \/ ~ok,
                  !.status = IF ok /\ ver.all_tables_exist /\ ver.ext
                                /\ ver.vector_idx
                             THEN 0 ELSE 1]
    /\ UNCHANGED <<poolVars, embVars, sessVars, msgVars, mig, setup>>

\* test_setup.main: the four tests, the summary and sys.exit
SetupMain(results) ==
    /\ setup.pc = "start"
    /\ LET all_passed == \A k \in DOMAIN results : results[k]
       IN setup' = [pc |-> "exit", failed |-> ~all_passed,
                    status |-> IF all_passed THEN 0 ELSE 1]
    /\ UNCHANGED <<poolVars, embVars, sessVars, msgVars, mig, ver>>

SetupTests == {"Imports", "Environment", "FastAPI", "Database Module"}

MigNext ==
    \/ \E connOk, dirOk, closeOk, test \in BOOLEAN, names \in SUBSET FileNames :
          MigStart(connOk, dirOk, names, closeOk, test)
    \/ \E ok \in BOOLEAN : MigApply(ok)
    \/ \E ok \in BOOLEAN : MigInventory(ok)
    \/ \E ok \in BOOLEAN : MigTestCall(ok)
    \/ \E ok \in BOOLEAN : MigTestAcquire(ok)
    \/ \E ok \in BOOLEAN : MigTestStmt(ok)
    \/ MigTestRelease

ScriptNext ==
    \/ MigNext
    \/ \E ok, ext, tables, vidx \in BOOLEAN : VerChecks(ok, ext, tables, vidx)
    \/ \E ok \in BOOLEAN : VerInsert(ok)
    \/ \E ok \in BOOLEAN : VerDelete(ok)
    \/ \E ok \in BOOLEAN : VerClose(ok)
    \/ \E results \in [SetupTests -> BOOLEAN] : SetupMain(results)

Next ==
    \/ \E t \in Tasks, f \in Callers : GetExisting(t, f)
    \/ \E t \in Tasks, f \in Callers : GetConfigError(t, f)
    \/ \E t \in Tasks, f \in Callers : GetCreateBegin(t, f)
    \/ \E t \in Tasks : GetCreateEnd(t)
    \/ \E t \in Tasks : GetCreateFail(t)
    \/ \E t \in Tasks : CloseNoop(t)
    \/ \E t \in Tasks : CloseBegin(t)
    \/ \E t \in Tasks : CloseClosed(t)
    \/ \E t \in Tasks : CloseEnd(t)
    \/ \E t \in Tasks : CloseFail(t)
    \/ \E t \in Tasks : OpAcquire(t)
    \/ \E t \in Tasks : GetDbYield(t)
    \/ \E t \in Tasks, raised \in BOOLEAN : GetDbClose(t, raised)
    \/ \E t \in Tasks : OpAcquireFail(t)
    \/ \E t \in Tasks : OpStmtOk(t)
    \/ \E t \in Tasks : OpStmtFail(t)

Init == PoolInit /\ EmbInit /\ SessInit /\ MsgInit /\ ScriptInit

Spec == Init /\ [][Next]_vars

MigSpec == Init /\ [][MigNext]_vars

ScriptSpec == Init /\ [][ScriptNext]_vars

\* an operation of a caller outside Tasks checks out a connection of the
\* installed pool
OtherAcquire ==
    /\ _pool # None
    /\ pstate[_pool] = "open"
    /\ out[_pool] < max_size
    /\ out' = [out EXCEPT ![_pool] = @ + 1]
    /\ UNCHANGED <<storeVars, dep, url, _pool, nPools, pstate, pc, fn, loc, rem, ret,
                   acq, err, waited, created, returned>>

\* connections of pool p checked out by the calls of Tasks
HeldByTasks(p) ==
    Cardinality({t \in Tasks : pc[t] = "stmt" /\ loc[t] = p})
      + Cardinality({t \in Tasks : dep[t] = p})

\* such an operation leaves its `async with pool.acquire()` block
OtherRelease ==
    /\ _pool # None
    /\ out[_pool] > HeldByTasks(_pool)
    /\ out' = [out EXCEPT ![_pool] = @ - 1]
    /\ UNCHANGED <<storeVars, dep, url, _pool, nPools, pstate, pc, fn, loc, rem, ret,
                   acq, err, waited, created, returned>>

\* the call of task t is suspended in pool.acquire() because every
\* connection is checked out; acquire() is called without a timeout
\* (operations.py:42), the `timeout` of create_pool (connection.py:34) is
\* handed to the connections' connect
Waiting(t) ==
    /\ pc[t] = "acquire"
    /\ pstate[loc[t]] = "open"
    /\ out[loc[t]] = max_size

\* one unit of time passes while calls wait for a connection
WaitTick ==
    /\ \E t \in Tasks : Waiting(t)
    /\ \A t \in Tasks : Waiting(t) => waited[t] < timeout + MaxOverrun
    /\ waited' = [t \in Tasks |-> IF Waiting(t) THEN waited[t] + 1 ELSE waited[t]]
    /\ UNCHANGED <<storeVars, dep, url, _pool, nPools, pstate, out, pc, fn, loc, rem,
                   ret, acq, err, created, returned>>

\* get_database_pool, an operation of the Operations Layer and the
\* diagnostic of the connection module
ErrCallers == {"get_database_pool", "get_chat_session"} \cup Probes

ErrNext ==
    \/ \E t \in Tasks, f \in ErrCallers : GetExisting(t, f)
    \/ \E t \in Tasks, f \in ErrCallers : GetConfigError(t, f)
    \/ \E t \in Tasks, f \in ErrCallers : GetCreateBegin(t, f)
    \/ \E t \in Tasks : GetCreateEnd(t)
    \/ \E t \in Tasks : GetCreateFail(t)
    \/ \E t \in Tasks : CloseNoop(t)
    \/ \E t \in Tasks : CloseBegin(t)
    \/ \E t \in Tasks : CloseClosed(t)
    \/ \E t \in Tasks : CloseEnd(t)
    \/ \E t \in Tasks : CloseFail(t)
    \/ \E t \in Tasks : OpAcquire(t)
    \/ \E t \in Tasks : OpAcquireFail(t)
    \/ \E t \in Tasks : OpStmtOk(t)
    \/ \E t \in Tasks : OpStmtFail(t)

ErrSpec == Init /\ [][ErrNext]_vars

\* the pool is open: the state after the first get_database_pool call
OpenPoolInit ==
    /\ url = "postgresql://db"
    /\ _pool = 1
    /\ nPools = 1
    /\ pstate = [p \in PoolIds |-> IF p = 1 THEN "open" ELSE "new"]
    /\ out = [p \in PoolIds |-> 0]
    /\ pc = [t \in Tasks |-> "idle"]
    /\ fn = [t \in Tasks |-> "none"]
    /\ loc = [t \in Tasks |-> None]
    /\ rem = [t \in Tasks |-> 0]
    /\ ret = [t \in Tasks |-> "none"]
    /\ dep = [t \in Tasks |-> None]
    /\ acq = [t \in Tasks |-> 0]
    /\ err = [t \in Tasks |-> "none"]
    /\ waited = [t \in Tasks |-> 0]
    /\ created = 1
    /\ returned = {}

StoreInit == OpenPoolInit /\ EmbInit /\ SessInit /\ MsgInit /\ ScriptInit

\* a batch call next to the insert_embedding calls of another task
EmbNext ==
    \/ \E rec \in EmbRecs : InsertEmbedding(1, rec)
    \/ EmbReturn(1)
    \/ \E recs \in BatchInputs : BatchBegin(recs)
    \/ BatchInsert
    \/ BatchCommit
    \/ BatchReturn

EmbSpec == StoreInit /\ [][EmbNext]_vars

SearchNext ==
    \/ \E rec \in SearchRecs : InsertEmbedding(1, rec)
    \/ EmbReturn(1)
    \/ \E q \in Vectors, st \in SourceTypeArgs, limit \in 0..MaxLimit,
          thr \in Thresholds : SearchSimilarEmbeddings(q, st, limit, thr)
    \/ SearchReturn

SearchSpec == StoreInit /\ [][SearchNext]_vars

\* two tasks inserting and deleting, each call of one running while a call
\* of the other is suspended in the release of its connection
StoreCallers == {1, 2}

DelNext ==
    \/ \E t \in StoreCallers, rec \in DelRecs : InsertEmbedding(t, rec)
    \/ \E t \in StoreCallers, st \in {"faq", "page"}, sid \in {"s1", "s2"} :
          DeleteEmbeddingsBySource(t, st, sid)
    \/ \E t \in StoreCallers : EmbReturn(t)

DelSpec == StoreInit /\ [][DelNext]_vars

\* one call of the Operations Layer next to the in-flight operations of
\* other callers
WaitNext ==
    \/ GetExisting(1, "get_chat_session")
    \/ OpAcquire(1)
    \/ OpStmtOk(1)
    \/ OpStmtFail(1)
    \/ OtherAcquire
    \/ OtherRelease
    \/ WaitTick

WaitSpec == StoreInit /\ [][WaitNext]_vars

\* two tasks calling the session operations, each call of one running while
\* a call of the other is suspended in the release of its connection
SessionCallers == {1, 2}

SessNext ==
    \/ \E t \in SessionCallers, ua \in {"ua"}, cp \in CreatePageArgs,
          md \in MetadataArgs : CreateChatSession(t, ua, cp, md)
    \/ \E t \in SessionCallers, sid \in SessionIdArgs, cp \in UpdatePageArgs,
          md \in UpdateMetadataArgs : UpdateChatSession(t, sid, cp, md)
    \/ \E t \in SessionCallers : SessionReturn(t)

SessSpec == StoreInit /\ [][SessNext]_vars

\* two tasks storing messages, each statement and return of one running
\* while the call of the other is in flight, next to the clock
MsgNext ==
    \/ \E cp \in CreatePageArgs : CreateChatSession(1, "ua", cp, PyNone)
    \/ SessionReturn(1)
    \/ Tick
    \/ \E t \in StoreCallers, sid \in SessionIdArgs, ok \in BOOLEAN :
          MsgFirst(t, sid, PyNone, ok)
    \/ \E t \in StoreCallers, ok \in BOOLEAN : MsgSecond(t, ok)
    \/ \E t \in StoreCallers : MsgReturn(t)

MsgSpec == StoreInit /\ [][MsgNext]_vars

HistNext ==
    \/ \E cp \in CreatePageArgs : CreateChatSession(1, "ua", cp, PyNone)
    \/ SessionReturn(1)
    \/ Tick
    \/ \E t \in StoreCallers, sid \in SessionIdArgs, ok \in BOOLEAN :
          MsgFirst(t, sid, PyNone, ok)
    \/ \E t \in StoreCallers, ok \in BOOLEAN : MsgSecond(t, ok)
    \/ \E t \in StoreCallers : MsgReturn(t)
    \/ \E sid \in SessionIdArgs, limit \in 0..MaxMsgs, offset \in 0..MaxOffset :
          GetChatHistory(sid, limit, offset)
    \/ HistoryReturn

HistSpec == StoreInit /\ [][HistNext]_vars

\* records of the embedding operations that differ in their metadata only
MetaRecs ==
    [source_type : {"faq"}, source_id : {"s1"}, content_chunk : {"text"},
     embedding : {UnitVector}, metadata : MetadataArgs]
MetaBatchRecs ==
    [source_type : {"faq"}, source_id : {"s1"}, content_chunk : {"text"},
     embedding : {UnitVector}, metadata : MetadataArgs \cup {KeyMissing}]

\* the operations that store a metadata map, each with a metadata argument
\* that is None, empty or non-empty (a batch record may also lack the key);
\* one session, message, selection and batch record at a time
MetaNext ==
    \/ \E md \in MetadataArgs :
          Len(sessions) < 1 /\ CreateChatSession(1, "ua", "/a", md)
    \/ \E md \in MetadataArgs : UpdateChatSession(1, 1, NoneStr, md)
    \/ SessionReturn(1)
    \/ \E md \in MetadataArgs :
          Len(messages) < 1 /\ MsgFirst(1, 1, md, TRUE)
    \/ MsgSecond(1, TRUE)
    \/ MsgReturn(1)
    \/ \E md \in MetadataArgs : InsertTextSelection(1, md)
    \/ \E rec \in MetaRecs : InsertEmbedding(2, rec)
    \/ EmbReturn(2)
    \/ \E rec \in MetaBatchRecs : BatchBegin(<<rec>>)
    \/ BatchInsert
    \/ BatchCommit
    \/ BatchReturn

MetaSpec == StoreInit /\ [][MetaNext]_vars

TypeOK ==
    /\ url \in UrlValues
    /\ _pool \in PoolIds \cup {None}
    /\ nPools \in 0..MaxPools
    /\ \A p \in PoolIds : out[p] \in 0..max_size
    /\ dep \in [Tasks -> PoolIds \cup {None}]

\* ------------------------------------------------------------------------
\* C1: between two closes every get_database_pool call returns the same pool
\* and create_pool is invoked at most once, for every interleaving of callers
C1_SinglePool ==
    /\ Cardinality(returned) <= 1
    /\ created <= 1

\* C2: a completed close_database_pool leaves _pool = None, a pool installed
\* afterwards is a freshly created open one and never a pool that was closed,
\* and close_database_pool without a pool changes nothing and returns
C2_CloseResets ==
    [][ /\ \A t \in Tasks :
             /\ (ret[t] # "closed" /\ ret'[t] = "closed") => _pool' = None
             /\ (ret[t] # "close_none" /\ ret'[t] = "close_none")
                    => /\ _pool = None
                       /\ UNCHANGED <<_pool, nPools, pstate, out>>
        /\ (_pool = None /\ _pool' # None)
               => (_pool' \notin closedOk /\ pstate'[_pool'] = "open")
        /\ _pool' \notin closedOk' ]_vars

C2_Witness ==
    /\ closedOk # {}
    /\ _pool # None
    /\ \E t \in Tasks : fn[t] = "get_database_pool" /\ ret[t] = "pool"
                          /\ loc[t] = _pool
    /\ \E t \in Tasks : ret[t] = "closed"

\* C3: with no pool and DATABASE_URL unset or empty, get_database_pool and
\* every operation fail with the configuration error, create_pool is never
\* called and _pool stays None
C3_ConfigError ==
    url \in {"unset", ""} =>
        /\ nPools = 0
        /\ _pool = None
        /\ \A t \in Tasks :
              /\ pc[t] = "idle"
              /\ fn[t] \in Callers => ret[t] = "ValueError"

C3_Witness ==
    /\ url = ""
    /\ \E t \in Tasks : fn[t] = "insert_chat_message" /\ ret[t] = "ValueError"
    /\ \E t \in Tasks : fn[t] = "get_database_pool" /\ ret[t] = "ValueError"

\* connections of pool p yielded by open get_db generators
YieldedByGetDb(p) == Cardinality({t \in Tasks : dep[t] = p})

\* C4: an operation holds exactly one pooled connection while it runs its
\* statements and has returned it when it ends, by result or by exception;
\* so the connections checked out are those of the operations in flight and
\* those yielded by get_db, and with no call in flight no connection is
\* checked out by an operation
C4_ScopedAcquire ==
    /\ \A t \in Tasks :
          /\ pc[t] = "stmt" => acq[t] = 1
          /\ pc[t] # "stmt" => acq[t] = 0
    /\ \A p \in PoolIds :
          out[p] - YieldedByGetDb(p)
             = Cardinality({t \in Tasks : pc[t] = "stmt" /\ loc[t] = p})
    /\ (\A t \in Tasks : pc[t] = "idle")
          => \A p \in PoolIds : out[p] = YieldedByGetDb(p)

C4_Witness ==
    /\ \A t \in Tasks : pc[t] = "idle"
    /\ \E t \in Tasks : fn[t] = "insert_chat_message" /\ ret[t] = "StoreError"
    /\ \E t \in Tasks : fn[t] \in Callers /\ ret[t] = "result"
    /\ \A p \in PoolIds : out[p] = 0

\* ------------------------------------------------------------------------
Range(f) == {f[i] : i \in DOMAIN f}

\* C5: batch_insert_embeddings is all-or-nothing: when the insert of a record
\* fails the stored rows stay as they were and the call raises, no row of a
\* batch is stored before its commit or after its failure, every step of the
\* call but the commit leaves the table alone, and a batch without a failure
\* appends one row per record, in input order, and returns their ids in that
\* order; the calls of another task run between the steps of the batch call
C5_AllOrNothing ==
    [][ /\ (batch.status = "active" /\ batch'.status = "raising")
            => emb' = emb
        /\ (batch.status = "raising" /\ batch'.status = "failed")
            => /\ emb' = emb
               /\ eres'.op = "batch_insert_embeddings"
               /\ eres'.status = "StoreError"
        /\ (batch.status = "active" /\ batch'.status = "returning")
            => /\ Len(emb') = Len(emb) + Len(batch.input)
               /\ SubSeq(emb', 1, Len(emb)) = emb
               /\ Len(batch.ids) = Len(batch.input)
               /\ \A i \in 1..Len(batch.input) :
                     LET row == emb'[Len(emb) + i]
                         rec == batch.input[i]
                     IN /\ row.embedding_id = batch.ids[i]
                        /\ row.source_type = rec.source_type
                        /\ row.source_id = rec.source_id
                        /\ row.content_chunk = rec.content_chunk
                        /\ row.embedding = rec.embedding
               /\ \A i, j \in 1..Len(batch.ids) :
                     i # j => batch.ids[i] # batch.ids[j]
               /\ \A i \in 1..Len(emb) :
                     emb[i].embedding_id \notin Range(batch.ids)
        /\ (batch.status = "returning" /\ batch'.status = "committed")
            => /\ emb' = emb
               /\ eres'.op = "batch_insert_embeddings"
               /\ eres'.status = "ok"
               /\ eres'.ids = batch.ids
               /\ batch'.input = batch.input
        /\ (batch' # batch /\ batch'.status # "returning") => emb' = emb
        /\ batch'.status \in {"active", "raising", "failed"}
            => \A i \in 1..Len(emb') :
                  emb'[i].embedding_id \notin Range(batch'.ids) ]_vars

\* a batch whose last record was rejected after an earlier one was inserted
\* has raised, and the row another task stored while the call was in flight
\* is the only one stored
C5_Witness ==
    /\ batch.status = "failed"
    /\ Len(batch.input) = MaxBatch
    /\ batch.i = Len(batch.input)
    /\ Len(batch.pending) >= 1
    /\ eres.op = "batch_insert_embeddings"
    /\ eres.status = "StoreError"
    /\ Len(emb) = 1
    /\ epend[1] # NoRet

\* rows of the table its SELECT read that the search ranks for the
\* source_type it was given
SearchCandidates == Candidates(search.store, search.source_type)

\* candidates whose similarity to the query meets the threshold
MeetingThreshold ==
    {i \in 1..Len(SearchCandidates) :
        Similarity(SearchCandidates[i].embedding, search.query)
            >= search.threshold}

\* fewer than `limit` rows are returned although a ranked row that was not
\* returned meets the threshold
UnderReturns(cands, q, limit, thr, results) ==
    /\ Len(results) < limit
    /\ \E i \in 1..Len(cands) :
          /\ Similarity(cands[i].embedding, q) >= thr
          /\ \A k \in 1..Len(results) : results[k].row # cands[i]

\* the stores of at most MaxRows rows the inserts can build
SearchStores ==
    UNION {{[i \in 1..n |-> NewRow(i, recs[i], JsonObject(EmptyMap))] :
              recs \in [1..n -> SearchRecs]} : n \in 0..MaxRows}

\* C6 (as stated): there are a store content (the current one or any other
\* the inserts can build), a query, a limit and a nonzero threshold for which
\* the search returns fewer than `limit` rows although rows beyond the page
\* meet the threshold
C6_UnderReturnExists ==
    \E store \in SearchStores \cup {emb}, q \in Vectors, st \in SourceTypeArgs,
       limit \in 0..MaxLimit, thr \in Thresholds \ {0} :
       \E o \in Orderings(Candidates(store, st), q) :
          UnderReturns(Candidates(store, st), q, limit, thr,
                       SearchResult(store, q, st, limit, thr, o))

\* C6 (amended): the page is the `limit` most similar rows, so filtering it
\* by the threshold returns as many rows as filtering before the limit:
\* min(limit, number of ranked rows meeting the threshold); the search never
\* leaves out a row meeting the threshold while returning fewer than `limit`
C6_ThresholdAfterLimit ==
    search.done =>
        /\ Len(search.results)
              = Min(search.limit, Cardinality(MeetingThreshold))
        /\ ~UnderReturns(SearchCandidates, search.query, search.limit,
                         search.threshold, search.results)

\* a nonzero threshold cuts the result below `limit` while ranked rows lie
\* beyond the page
C6_Witness ==
    /\ search.done
    /\ search.threshold > 0
    /\ search.limit >= 1
    /\ Len(SearchCandidates) > search.limit
    /\ Len(search.results) < search.limit

\* C7 (as stated): for every store content, query, limit and threshold the
\* search returns at most `limit` rows, in non-increasing similarity order,
\* each with similarity >= the threshold, and a stored row whose embedding
\* equals the query is returned unless `limit` or more other rows tie with it
\* at similarity 1.0
C7_IdenticalReturned ==
    search.done =>
        LET res == search.results
        IN /\ Len(res) <= search.limit
           /\ \A i \in 1..(Len(res) - 1) :
                 res[i].similarity >= res[i + 1].similarity
           /\ \A i \in 1..Len(res) : res[i].similarity >= search.threshold
           /\ \A j \in 1..Len(search.store) :
                 search.store[j].embedding = search.query
                    => \/ \E i \in 1..Len(res) : res[i].row = search.store[j]
                       \/ Cardinality({k \in 1..Len(search.store) :
                             /\ k # j
                             /\ Similarity(search.store[k].embedding,
                                           search.query) = 100})
                            >= search.limit

\* C7 (amended): the search returns at most `limit` rows, in non-increasing
\* similarity order, each a row the SELECT read, with its similarity to the
\* query, a number >= the threshold; when the threshold is at most 1.0 and
\* the query is not the zero vector, a row the search ranks (not a row whose
\* source_type differs from the one it filters by) whose embedding equals
\* the query is returned unless `limit` or more other ranked rows tie with
\* it at similarity 1.0; a threshold above 1.0 or a zero query returns nothing
C7_SearchContract ==
    search.done =>
        LET res == search.results
            cands == SearchCandidates
        IN /\ Len(res) <= search.limit
           /\ \A i \in 1..(Len(res) - 1) :
                 res[i].similarity >= res[i + 1].similarity
           /\ \A i \in 1..Len(res) :
                 /\ res[i].similarity # NaN
                 /\ res[i].similarity >= search.threshold
                 /\ res[i].similarity
                       = Similarity(res[i].row.embedding, search.query)
                 /\ res[i].row \in Range(search.store)
           /\ \A i, j \in 1..Len(res) : i # j => res[i].row # res[j].row
           /\ (search.threshold <= 100 /\ search.query # ZeroVector)
                 => \A j \in 1..Len(cands) :
                       cands[j].embedding = search.query
                          => \/ \E i \in 1..Len(res) : res[i].row = cands[j]
                             \/ Cardinality({k \in 1..Len(cands) :
                                   /\ k # j
                                   /\ Similarity(cands[k].embedding,
                                                 search.query) = 100})
                                  >= search.limit
           /\ (search.threshold > 100 \/ search.query = ZeroVector)
                 => res = <<>>

\* the row of the requested source type equal to the query is returned
\* although a row of another type is stored and the threshold is 1.0
C7_Witness ==
    /\ search.done
    /\ search.source_type = "faq"
    /\ \E j \in 1..Len(search.store) : search.store[j].source_type # "faq"
    /\ Len(search.store) > search.limit
    /\ search.threshold = 100
    /\ Len(search.results) = 1
    /\ search.results[1].row.embedding = search.query
    /\ search.results[1].similarity = 100

\* C8: whenever a source_type is supplied, the empty string included, only
\* rows of that source_type are ranked, so every returned row has it
C8_SourceTypeFilter ==
    (search.done /\ search.source_type # NoneStr) =>
        \A i \in 1..Len(search.results) :
            search.results[i].row.source_type = search.source_type

\* the step is the statement of a session call of task t
SessionStep(t) == sret[t] = NoRet /\ sret'[t] # NoRet

\* the step is an update_chat_session call
UpdateStep ==
    /\ \E t \in Tasks : SessionStep(t)
    /\ scall'.op = "update_chat_session"

\* C9: update_chat_session changes only what was supplied: a supplied
\* current_page replaces the stored one, a supplied metadata map is united
\* with the stored one (its keys win, the other stored keys stay), and every
\* other field, every other session and the number of sessions are unchanged
C9_PartialUpdate ==
    [][ UpdateStep =>
          LET sid == scall'.session_id
              cp == scall'.current_page
              md == scall'.metadata
          IN /\ Len(sessions') = Len(sessions)
             /\ \A s \in 1..Len(sessions) :
                   s # sid => sessions'[s] = sessions[s]
             /\ sid \in 1..Len(sessions) =>
                   LET old == sessions[sid]
                       new == sessions'[sid]
                   IN /\ new.session_id = old.session_id
                      /\ new.created_at = old.created_at
                      /\ new.updated_at = old.updated_at
                      /\ new.user_agent = old.user_agent
                      /\ new.current_page
                            = (IF cp # NoneStr THEN cp ELSE old.current_page)
                      /\ IF md = PyNone
                         THEN new.metadata = old.metadata
                         ELSE /\ new.metadata.json = "object"
                              /\ DOMAIN new.metadata.m
                                    = DOMAIN old.metadata.m \cup DOMAIN md.m
                              /\ \A k \in DOMAIN new.metadata.m :
                                    new.metadata.m[k]
                                       = (IF k \in DOMAIN md.m THEN md.m[k]
                                          ELSE old.metadata.m[k]) ]_vars

\* a session given {a: 1} and then updated with only {b: 2} holds both
\* keys, next to another session
C9_Witness ==
    /\ scall.done
    /\ scall.op = "update_chat_session"
    /\ scall.metadata = PyDict(MapB2)
    /\ scall.current_page = NoneStr
    /\ Len(sessions) = 2
    /\ scall.session_id = 1
    /\ sessions[1].metadata = JsonObject([k \in {"a", "b"} |->
                                             IF k = "a" THEN 1 ELSE 2])
    /\ sessions[1].current_page = "/a"

\* C10: update_chat_session returns True exactly when a field is supplied
\* and the session exists; with no field supplied it returns False without
\* issuing a statement; whenever it returns False the table is unchanged
C10_UpdateResult ==
    [][ UpdateStep =>
          LET sid == scall'.session_id
              cp == scall'.current_page
              md == scall'.metadata
              supplied == cp # NoneStr \/ md # PyNone
          IN /\ scall'.ret = (supplied /\ sid \in 1..Len(sessions))
             /\ ~supplied => (scall'.ret = FALSE /\ scall'.issued = 0)
             /\ scall'.ret = FALSE => sessions' = sessions
             /\ \A t \in Tasks : SessionStep(t) => sret'[t] = Returning(scall'.ret) ]_vars

\* nothing supplied for a stored session: False and no statement
C10_Witness ==
    /\ scall.done
    /\ scall.op = "update_chat_session"
    /\ scall.current_page = NoneStr
    /\ scall.metadata = PyNone
    /\ scall.session_id \in 1..Len(sessions)
    /\ scall.ret = FALSE
    /\ scall.issued = 0

\* ------------------------------------------------------------------------
\* updated_at of the sessions stored before the step is not lower after it
UpdatedAtKept ==
    \A s \in 1..Len(sessions) : sessions'[s].updated_at >= sessions[s].updated_at

\* C11: insert_chat_message first stores the message and then sets the
\* owning session's updated_at to the current time: the first statement
\* appends the message of an existing session and touches no session, the
\* second sets the owner's updated_at to NOW(), not below its value before,
\* and changes nothing else; a statement that fails and the return of the
\* call change no table, and no step of any task or of the clock lowers a
\* session's updated_at, so after the call it is not below its value before
C11_UpdatedAtAdvances ==
    [][ /\ Len(sessions') >= Len(sessions)
        /\ UpdatedAtKept
        /\ \A t \in Tasks :
              /\ (mcall[t].pc = "idle" /\ mcall'[t].pc = "second")
                    => /\ Len(messages') = Len(messages) + 1
                       /\ SubSeq(messages', 1, Len(messages)) = messages
                       /\ messages'[Len(messages')].session_id
                             = mcall'[t].session_id
                       /\ messages'[Len(messages')].created_at = now
                       /\ mcall'[t].session_id \in 1..Len(sessions)
                       /\ sessions' = sessions
              /\ (mcall[t].pc = "second" /\ mcall'[t].pc = "return"
                    /\ mcall'[t].outcome = "ok")
                    => LET sid == mcall[t].session_id
                       IN /\ sessions'[sid].updated_at = now
                          /\ sessions'[sid].updated_at
                                >= sessions[sid].updated_at
                          /\ \E i \in 1..Len(messages) :
                                messages[i].session_id = sid
                          /\ messages' = messages
                          /\ \A s \in 1..Len(sessions) :
                                s # sid => sessions'[s] = sessions[s]
              /\ (mcall[t].pc # "return" /\ mcall'[t].pc = "return"
                    /\ mcall'[t].outcome = "StoreError")
                    => /\ sessions' = sessions
                       /\ messages' = messages
              /\ (mcall[t].pc = "return" /\ mcall'[t].pc = "idle")
                    => /\ mres' = mcall[t].outcome
                       /\ sessions' = sessions
                       /\ messages' = messages ]_vars

\* the call of a task has stored a message of session 1 and set the
\* session's updated_at, and while the call is suspended in the release of
\* its connection the clock has moved on and the other task has a call in
\* flight
C11_Witness ==
    \E t, u \in Tasks :
        /\ mcall[t].pc = "return"
        /\ mcall[t].outcome = "ok"
        /\ mcall[t].session_id = 1
        /\ \E i \in 1..Len(messages) : messages[i].session_id = 1
        /\ now > sessions[1].updated_at
        /\ u # t
        /\ mcall[u].pc = "second"

\* the messages of the session the history was asked for that were stored
\* when the SELECT ran, in insertion order
HistoryOwned == SessionMessages(hist.seen, hist.session_id)

\* C12: get_chat_history returns the messages at positions offset+1 ..
\* offset+limit of the session's messages in insertion order, messages that
\* share a creation timestamp included
C12_HistoryPage ==
    hist.done =>
        LET n == Max(0, Min(hist.limit, Len(HistoryOwned) - hist.offset))
        IN hist.results = SubSeq(HistoryOwned, hist.offset + 1, hist.offset + n)

\* the step is the statement of a delete_embeddings_by_source call of task t
DeleteStep(t) ==
    /\ epend[t] = NoRet
    /\ epend'[t] # NoRet
    /\ epend'[t][1].op = "delete_embeddings_by_source"

\* rows of a table with the given source_type and source_id
RowsOfSource(store, st, sid) ==
    {i \in 1..Len(store) :
        store[i].source_type = st /\ store[i].source_id = sid}

\* C13: the DELETE of delete_embeddings_by_source removes exactly the rows
\* whose source_type and source_id both match and leaves the others as they
\* were; the call returns the number of matching rows stored when the DELETE
\* ran, whatever other tasks store or delete before it returns, and that
\* number is 0 when no statement changed the table since the DELETE of a
\* call with the same arguments
C13_DeleteBySource ==
    [][ \A t \in Tasks :
          /\ DeleteStep(t) =>
                LET call == epend'[t][1]
                    st == call.source_type
                    sid == call.source_id
                    Other(r) == ~(r.source_type = st /\ r.source_id = sid)
                IN /\ emb' = SelectSeq(emb, Other)
                   /\ RowsOfSource(emb', st, sid) = {}
                   /\ call.count = Cardinality(RowsOfSource(emb, st, sid))
                   /\ Len(emb') = Len(emb) - call.count
                   /\ (elast.op = "delete" /\ elast.source_type = st
                         /\ elast.source_id = sid) => call.count = 0
          /\ (epend[t] # NoRet /\ epend'[t] = NoRet)
                => /\ eres' = epend[t][1]
                   /\ emb' = emb ]_vars

\* a delete has returned 1 for the row of one source, while a row another
\* task stored for that source after the DELETE is in the table, next to a
\* row that shares only the source_type
C13_Witness ==
    /\ eres.op = "delete_embeddings_by_source"
    /\ eres.count = 1
    /\ Len(emb) = 2
    /\ \E i, j \in 1..2 :
          /\ emb[i].source_type = eres.source_type
          /\ emb[i].source_id # eres.source_id
          /\ emb[j].source_type = eres.source_type
          /\ emb[j].source_id = eres.source_id
    /\ \E t \in Tasks : epend[t] # NoRet /\ epend[t][1].op = "insert_embedding"

\* the metadata values stored in the four tables
StoredMetadata ==
    {sessions[i].metadata : i \in 1..Len(sessions)}
        \cup {messages[i].metadata : i \in 1..Len(messages)}
        \cup {emb[i].metadata : i \in 1..Len(emb)}
        \cup {selections[i].metadata : i \in 1..Len(selections)}

\* C14: after any sequence of operations with a metadata argument (or batch
\* record entry) that is absent, None or an empty map, the stored metadata of
\* every row is a map and never null
C14_MetadataNeverNull ==
    \A mj \in StoredMetadata : mj.json = "object"

\* ------------------------------------------------------------------------
\* C15 (as stated): every function of the package that runs into a store or
\* connectivity failure ends with that failure raised to its caller
C15_FailuresPropagate ==
    \A t \in Tasks : err[t] # "none" => ret[t] = err[t]

\* C15 (amended): every function of the package that runs into a failure
\* raises that same failure to its caller, except test_database_connection,
\* which returns False for every failure
C15_OnlyProbeSwallows ==
    \A t \in Tasks :
        err[t] # "none" =>
            /\ pc[t] = "idle"
            /\ IF fn[t] = "test_database_connection"
               THEN ret[t] = "False"
               ELSE ret[t] = err[t]

\* a failed statement came back from test_database_connection as False and
\* from get_chat_session as the failure
C15_Witness ==
    \E t, u \in Tasks :
        /\ fn[t] = "test_database_connection"
        /\ err[t] = "StoreError"
        /\ ret[t] = "False"
        /\ fn[u] = "get_chat_session"
        /\ err[u] = "StoreError"
        /\ ret[u] = "StoreError"

\* C19: under any interleaving of get_database_pool and close_database_pool
\* callers, a get_database_pool call (made directly or by an operation) never
\* hands out a pool on which close has been started or completed, and a close
\* that raises does not leave a closed pool installed in _pool
C19_NoClosedPoolHandedOut ==
    [][ /\ \A t \in Tasks :
              /\ (ret'[t] = "pool"
                    /\ <<ret[t], loc[t], fn[t]>> # <<ret'[t], loc'[t], fn'[t]>>)
                    => pstate'[loc'[t]] = "open"
              /\ (pc[t] # "acquire" /\ pc'[t] = "acquire")
                    => pstate'[loc'[t]] = "open"
              /\ (ret[t] # "CloseError" /\ ret'[t] = "CloseError")
                    => (_pool' = None \/ pstate'[_pool'] = "open") ]_vars

\* C18: no more than max_size connections are checked out at a time, and a
\* call that finds them all checked out has obtained one or failed once the
\* connect timeout has passed: it is never still waiting after `timeout`
C18_BoundedWait ==
    /\ \A p \in PoolIds : out[p] <= max_size
    /\ \A t \in Tasks : pc[t] = "acquire" => waited[t] <= timeout

\* ------------------------------------------------------------------------
\* C16: a run of an operational script in which some step failed ends with a
\* nonzero exit status; status 0 is reached only when no step failed
C16_FailureExitsNonzero ==
    /\ mig.status = 0 => ~mig.failed
    /\ ver.status = 0 => ~ver.failed
    /\ setup.status = 0 => ~setup.failed

\* s is a prefix of q
IsPrefix(s, q) == Len(s) <= Len(q) /\ s = SubSeq(q, 1, Len(s))

\* C17: the migration runner executes the files one at a time in sorted
\* file-name order on a single connection and executes none after the first
\* that fails: the files applied are a prefix of the sorted list, at most one
\* more file (the failed one) was tried, and the reported success count is
\* the length of the applied prefix
C17_PrefixApplied ==
    /\ mig.connects <= 1
    /\ \A k \in 1..(Len(mig.files) - 1) : mig.files[k] < mig.files[k + 1]
    /\ IsPrefix(mig.applied, mig.files)
    /\ IsPrefix(mig.attempted, mig.files)
    /\ mig.success_count = Len(mig.applied)
    /\ Len(mig.attempted) - Len(mig.applied) \in {0, 1}
    /\ Len(mig.attempted) > Len(mig.applied) => mig.pc \notin {"start", "apply"}
    /\ (mig.pc \notin {"start", "apply"} /\ mig.files # <<>>
          /\ Len(mig.attempted) = Len(mig.applied))
          => mig.applied = mig.files

\* the second of three files failed: one file applied, two tried, the run
\* over
C17_Witness ==
    /\ mig.pc = "exit"
    /\ Len(mig.files) = 3
    /\ mig.success_count = 1
    /\ Len(mig.attempted) = 2
    /\ mig.attempted[2] = mig.files[2]
====
